---- MODULE Spec2Model ----
(***************************************************************************)
(* Model of custom_components/my_stock_portfolio/sensor.py: the three      *)
(* sensor classes (StockSensor, AggregateStockSensor, TotalPortfolioSensor)*)
(* created by setup_platform and their update methods.                     *)
(*                                                                         *)
(* Units.  Money is counted in mills (1/1000 of a dollar), so that         *)
(* round(x, 2) is a real conversion: it maps mills to the nearest cent,    *)
(* ties to the even cent, as Python's round does on the exactly            *)
(* representable values used here (prices are multiples of 1/8 dollar,     *)
(* shares and purchase prices are whole).  gain_percent is kept in         *)
(* hundredths of a percent, the result of round(.., 2) on the exact        *)
(* quotient; binary floating-point error is outside the model.             *)
(***************************************************************************)
EXTENDS Integers, Sequences, FiniteSets, TLC

VARIABLES
    stocks,      \* config["stocks"]: the configured holdings, in order
    individual,  \* individual_sensors: the StockSensor objects
    aggregate,   \* aggregate_sensors: the AggregateStockSensor objects
    portfolio,   \* the list holding the TotalPortfolioSensor (empty before setup)
    logged,      \* what the most recent update wrote to _LOGGER
    escaped,     \* TRUE once an exception has left an update method
    fetchCount,  \* first round: how often the quote source was asked, per ticker
    last,        \* which sensor the most recent update belonged to
    fetched,     \* the most recent update's fetches: ticker asked, answer got
    quotes,      \* steady-quote runs: the quote source's answer per ticker
    turn         \* steady-quote runs: position in the first round of updates

vars == <<stocks, individual, aggregate, portfolio, logged, escaped,
          fetchCount, last, fetched, quotes, turn>>

----------------------------------------------------------------------------
(* Bounds and input domains *)

MaxHoldings == 2

Accounts == {"A", "B"}

Tickers == {"X", "Y"}

\* <<shares, purchase_price>>: no shares, shares got for free, an ordinary lot
Lots == { <<0, 3000>>, <<2, 0>>, <<3, 2000>> }

\* regularMarketPrice values: 2.125 dollars
Prices == {2125}

Holdings ==
    { [account |-> a, symbol |-> t, shares |-> l[1], purchase_price |-> l[2]] :
        a \in Accounts, t \in Tickers, l \in Lots }

ConfigLists == UNION { [1..n -> Holdings] : n \in 0..MaxHoldings }

\* The three outcomes of stock.info.get("regularMarketPrice")
Absent == [kind |-> "absent", price |-> 0]

Raised == [kind |-> "raised", price |-> 0]

Quote(p) == [kind |-> "price", price |-> p]

Outcome == {Absent, Raised} \cup { Quote(p) : p \in Prices }

----------------------------------------------------------------------------
(* Python values *)

\* None, as the value of _state; a number v is <<v>>
None == <<>>

Num(v) == <<v>>

\* {} as the value of _attrs
NoAttrs == [k \in {} |-> 0]

\* num/den rounded to the nearest integer, ties to even (den > 0)
RoundHalfEven(num, den) ==
    LET q == num \div den
        r == num % den
    IN  IF 2 * r < den THEN q
        ELSE IF 2 * r > den THEN q + 1
        ELSE IF q % 2 = 0 THEN q ELSE q + 1

\* round(x, 2) of an amount x in mills: the nearest cent, in mills
round2(x) == 10 * RoundHalfEven(x, 10)

\* round(gain / purchase * 100, 2), in hundredths of a percent (purchase > 0)
round_percent(gain, purchase) == RoundHalfEven(gain * 10000, purchase)

\* dict.get(key, 0)
Get(d, key) == IF key \in DOMAIN d THEN d[key] ELSE 0

\* d[key] = value
Put(d, key, value) ==
    [k \in DOMAIN d \cup {key} |-> IF k = key THEN value ELSE d[k]]

----------------------------------------------------------------------------
(* setup_platform *)

StockSensor(stock_config) ==
    [account        |-> stock_config.account,
     ticker         |-> stock_config.symbol,
     shares         |-> stock_config.shares,
     purchase_price |-> stock_config.purchase_price,
     state          |-> None,
     attrs          |-> NoAttrs]

AggregateStockSensor(symbol, configs) ==
    [ticker |-> symbol, configs |-> configs, state |-> None, attrs |-> NoAttrs]

TotalPortfolioSensor(configs) ==
    [configs |-> configs, state |-> None, attrs |-> NoAttrs]

\* Variant: every holding gets a symbol sensor of its own
aggregate_data_per_holding(cfg, n) ==
    [i \in 1..n |-> <<cfg[i].symbol, <<cfg[i]>> >>]

\* aggregate_data after the loop over the first n entries of cfg: a list of
\* <<symbol, configs>> in the insertion order of the dict
RECURSIVE aggregate_data(_, _)
aggregate_data(cfg, n) ==
    IF n = 0 THEN <<>>
    ELSE LET prev   == aggregate_data(cfg, n - 1)
             symbol == cfg[n].symbol
             known  == { k \in 1..Len(prev) : prev[k][1] = symbol }
         IN  IF known = {}
             THEN Append(prev, <<symbol, <<cfg[n]>> >>)
             ELSE [k \in 1..Len(prev) |->
                     IF k \in known
                     THEN <<symbol, Append(prev[k][2], cfg[n])>>
                     ELSE prev[k]]

setup_platform(cfg) ==
    LET data == aggregate_data(cfg, Len(cfg))
    IN  [individual_sensors |-> [i \in 1..Len(cfg) |-> StockSensor(cfg[i])],
         aggregate_sensors  |->
             [k \in 1..Len(data) |-> AggregateStockSensor(data[k][1], data[k][2])],
         total_portfolio    |-> <<TotalPortfolioSensor(cfg)>>]

----------------------------------------------------------------------------
(* StockSensor.update *)

\* Variant: the division is not guarded; the ZeroDivisionError is caught by
\* the method's except clause
StockSensor_update_unguarded(self, fetch) ==
    IF \/ fetch.kind = "raised"
       \/ fetch.kind = "price" /\ self.purchase_price * self.shares = 0
    THEN [self    |-> [self EXCEPT !.state = None],
          log     |-> << [sensor |-> "stock", ticker |-> self.ticker,
                          account |-> self.account] >>,
          asked   |-> <<self.ticker>>,
          escaped |-> FALSE]
    ELSE IF fetch.kind = "absent"
    THEN [self    |-> [self EXCEPT !.state = None],
          log     |-> <<>>,
          asked   |-> <<self.ticker>>,
          escaped |-> FALSE]
    ELSE LET price          == fetch.price
             current_value  == price * self.shares
             purchase_value == self.purchase_price * self.shares
             gain_loss      == current_value - purchase_value
         IN  [self |-> [self EXCEPT
                  !.state = Num(round2(current_value)),
                  !.attrs = [account        |-> self.account,
                             ticker         |-> self.ticker,
                             shares         |-> self.shares,
                             purchase_price |-> self.purchase_price,
                             current_price  |-> price,
                             gain_loss      |-> round2(gain_loss),
                             gain_percent   |->
                                 round_percent(gain_loss, purchase_value)]],
              log     |-> <<>>,
              asked   |-> <<self.ticker>>,
              escaped |-> FALSE]

StockSensor_update(self, fetch) ==
    IF fetch.kind = "raised"
    THEN [self    |-> [self EXCEPT !.state = None],
          log     |-> << [sensor |-> "stock", ticker |-> self.ticker,
                          account |-> self.account] >>,
          asked   |-> <<self.ticker>>,
          escaped |-> FALSE]
    ELSE IF fetch.kind = "absent"
    THEN [self    |-> [self EXCEPT !.state = None],
          log     |-> <<>>,
          asked   |-> <<self.ticker>>,
          escaped |-> FALSE]
    ELSE LET price          == fetch.price
             current_value  == price * self.shares
             purchase_value == self.purchase_price * self.shares
             gain_loss      == current_value - purchase_value
             gain_percent   == IF purchase_value # 0
                               THEN round_percent(gain_loss, purchase_value)
                               ELSE 0
         IN  [self |-> [self EXCEPT
                  !.state = Num(round2(current_value)),
                  !.attrs = [account        |-> self.account,
                             ticker         |-> self.ticker,
                             shares         |-> self.shares,
                             purchase_price |-> self.purchase_price,
                             current_price  |-> price,
                             gain_loss      |-> round2(gain_loss),
                             gain_percent   |-> gain_percent]],
              log     |-> <<>>,
              asked   |-> <<self.ticker>>,
              escaped |-> FALSE]

----------------------------------------------------------------------------
(* AggregateStockSensor.update *)

\* Variant: account_breakdown[account] is assigned, not added to
RECURSIVE aggregate_loop_overwrite(_, _)
aggregate_loop_overwrite(configs, n) ==
    IF n = 0
    THEN [total_shares |-> 0, total_purchase_value |-> 0,
          account_breakdown |-> NoAttrs]
    ELSE LET acc == aggregate_loop_overwrite(configs, n - 1)
         IN  [total_shares         |-> acc.total_shares + configs[n].shares,
              total_purchase_value |->
                  acc.total_purchase_value
                      + configs[n].shares * configs[n].purchase_price,
              account_breakdown    |->
                  Put(acc.account_breakdown, configs[n].account, configs[n].shares)]

\* the loop of lines 108-114 over the first n configs
RECURSIVE aggregate_loop(_, _)
aggregate_loop(configs, n) ==
    IF n = 0
    THEN [total_shares |-> 0, total_purchase_value |-> 0,
          account_breakdown |-> NoAttrs]
    ELSE LET acc            == aggregate_loop(configs, n - 1)
             shares         == configs[n].shares
             purchase_price == configs[n].purchase_price
             account        == configs[n].account
         IN  [total_shares         |-> acc.total_shares + shares,
              total_purchase_value |->
                  acc.total_purchase_value + shares * purchase_price,
              account_breakdown    |->
                  Put(acc.account_breakdown, account,
                      Get(acc.account_breakdown, account) + shares)]

AggregateStockSensor_update(self, fetch) ==
    IF fetch.kind = "raised"
    THEN [self    |-> [self EXCEPT !.state = None],
          log     |-> << [sensor |-> "aggregate", ticker |-> self.ticker,
                          account |-> ""] >>,
          asked   |-> <<self.ticker>>,
          escaped |-> FALSE]
    ELSE IF fetch.kind = "absent"
    THEN [self    |-> [self EXCEPT !.state = None],
          log     |-> <<>>,
          asked   |-> <<self.ticker>>,
          escaped |-> FALSE]
    ELSE LET price         == fetch.price
             acc           == aggregate_loop(self.configs, Len(self.configs))
             current_value == price * acc.total_shares
             gain_loss     == current_value - acc.total_purchase_value
             gain_percent  == IF acc.total_purchase_value # 0
                              THEN round_percent(gain_loss, acc.total_purchase_value)
                              ELSE 0
         IN  [self |-> [self EXCEPT
                  !.state = Num(round2(current_value)),
                  !.attrs = [ticker               |-> self.ticker,
                             total_shares         |-> acc.total_shares,
                             current_price        |-> price,
                             total_purchase_value |-> round2(acc.total_purchase_value),
                             gain_loss            |-> round2(gain_loss),
                             gain_percent         |-> gain_percent,
                             account_breakdown    |-> acc.account_breakdown]],
              log     |-> <<>>,
              asked   |-> <<self.ticker>>,
              escaped |-> FALSE]

----------------------------------------------------------------------------
(* TotalPortfolioSensor.update *)

\* Variant: a holding whose fetch failed is counted as a zero-value holding,
\* its purchase value still entering the total
portfolio_step_zero_value(acc, config, fetch) ==
    LET ticker         == config.symbol
        current_value  == IF fetch.kind = "price" THEN fetch.price * config.shares ELSE 0
        purchase_value == config.purchase_price * config.shares
        entry          == IF ticker \in DOMAIN acc.per_stock
                          THEN acc.per_stock[ticker]
                          ELSE [shares |-> 0, current_value |-> 0]
    IN  [acc EXCEPT
            !.asked = Append(@, ticker),
            !.log = IF fetch.kind = "raised"
                    THEN Append(@, [sensor |-> "portfolio", ticker |-> ticker,
                                    account |-> ""])
                    ELSE @,
            !.total_value = @ + current_value,
            !.total_purchase_value = @ + purchase_value,
            !.per_stock = IF fetch.kind = "price"
                          THEN Put(@, ticker,
                                   [shares        |-> entry.shares + config.shares,
                                    current_value |-> entry.current_value + current_value])
                          ELSE @]

\* Variant: the per_stock entry is created before the fetch, so a ticker
\* whose fetches all fail is listed with value 0
portfolio_step_early_entry(acc, config, fetch) ==
    LET ticker  == config.symbol
        entry   == IF ticker \in DOMAIN acc.per_stock
                   THEN acc.per_stock[ticker]
                   ELSE [shares |-> 0, current_value |-> 0]
        started == [acc EXCEPT !.asked = Append(@, ticker),
                               !.per_stock = Put(@, ticker, entry)]
    IN  IF fetch.kind = "raised"
        THEN [started EXCEPT !.log = Append(@, [sensor |-> "portfolio",
                                                ticker |-> ticker, account |-> ""])]
        ELSE IF fetch.kind = "absent"
        THEN started
        ELSE [started EXCEPT
                 !.total_value = @ + fetch.price * config.shares,
                 !.total_purchase_value = @ + config.purchase_price * config.shares,
                 !.per_stock = Put(@, ticker,
                     [shares        |-> entry.shares + config.shares,
                      current_value |-> entry.current_value
                                            + fetch.price * config.shares])]

\* Variant: per_stock[ticker] is assigned, not added to
portfolio_step_overwrite(acc, config, fetch) ==
    LET ticker == config.symbol
    IN  IF fetch.kind = "raised"
        THEN [acc EXCEPT !.asked = Append(@, ticker),
                         !.log = Append(@, [sensor |-> "portfolio",
                                            ticker |-> ticker, account |-> ""])]
        ELSE IF fetch.kind = "absent"
        THEN [acc EXCEPT !.asked = Append(@, ticker)]
        ELSE [acc EXCEPT
                 !.asked = Append(@, ticker),
                 !.total_value = @ + fetch.price * config.shares,
                 !.total_purchase_value = @ + config.purchase_price * config.shares,
                 !.per_stock = Put(@, ticker,
                     [shares        |-> config.shares,
                      current_value |-> fetch.price * config.shares])]

\* one pass of the loop body, lines 155-179, for one config and the answer
\* of its own fetch
portfolio_step(acc, config, fetch) ==
    LET ticker         == config.symbol
        shares         == config.shares
        purchase_price == config.purchase_price
        asked          == Append(acc.asked, ticker)
    IN  IF fetch.kind = "raised"
        THEN [acc EXCEPT !.asked = asked,
                         !.log = Append(@, [sensor |-> "portfolio",
                                            ticker |-> ticker, account |-> ""])]
        ELSE IF fetch.kind = "absent"
        THEN [acc EXCEPT !.asked = asked]
        ELSE LET price          == fetch.price
                 current_value  == price * shares
                 purchase_value == purchase_price * shares
                 entry          == IF ticker \in DOMAIN acc.per_stock
                                   THEN acc.per_stock[ticker]
                                   ELSE [shares |-> 0, current_value |-> 0]
             IN  [acc EXCEPT
                     !.asked = asked,
                     !.total_value = @ + current_value,
                     !.total_purchase_value = @ + purchase_value,
                     !.per_stock = Put(@, ticker,
                         [shares        |-> entry.shares + shares,
                          current_value |-> entry.current_value + current_value])]

\* Variant: the loop ends at the first failed fetch (break for continue)
RECURSIVE portfolio_loop_break(_, _, _)
portfolio_loop_break(configs, fetches, n) ==
    IF n = 0
    THEN [total_value |-> 0, total_purchase_value |-> 0, per_stock |-> NoAttrs,
          log |-> <<>>, asked |-> <<>>]
    ELSE LET prev == portfolio_loop_break(configs, fetches, n - 1)
         IN  IF Len(prev.asked) < n - 1
                \/ (n > 1 /\ fetches[n - 1].kind # "price")
             THEN prev
             ELSE portfolio_step(prev, configs[n], fetches[n])

\* the loop over the first n configs; fetches[i] answers the fetch of configs[i]
RECURSIVE portfolio_loop(_, _, _)
portfolio_loop(configs, fetches, n) ==
    IF n = 0
    THEN [total_value |-> 0, total_purchase_value |-> 0, per_stock |-> NoAttrs,
          log |-> <<>>, asked |-> <<>>]
    ELSE portfolio_step(portfolio_loop(configs, fetches, n - 1),
                        configs[n], fetches[n])

\* Variant: when no holding could be priced the sensor goes unavailable and
\* keeps its attributes, as the two other sensors do
TotalPortfolioSensor_update_unavailable(self, fetches) ==
    LET acc          == portfolio_loop(self.configs, fetches, Len(self.configs))
        gain         == acc.total_value - acc.total_purchase_value
        gain_percent == IF acc.total_purchase_value # 0
                        THEN round_percent(gain, acc.total_purchase_value)
                        ELSE 0
    IN  IF DOMAIN acc.per_stock = {}
        THEN [self |-> [self EXCEPT !.state = None],
              log |-> acc.log, asked |-> acc.asked, escaped |-> FALSE]
        ELSE [self |-> [self EXCEPT
                 !.state = Num(round2(acc.total_value)),
                 !.attrs = [total_purchase_value |-> round2(acc.total_purchase_value),
                            total_gain_loss      |-> round2(gain),
                            total_gain_percent   |-> gain_percent,
                            by_stock             |->
                                [k \in DOMAIN acc.per_stock |->
                                    round2(acc.per_stock[k].current_value)]]],
              log     |-> acc.log,
              asked   |-> acc.asked,
              escaped |-> FALSE]

TotalPortfolioSensor_update(self, fetches) ==
    LET acc          == portfolio_loop(self.configs, fetches, Len(self.configs))
        gain         == acc.total_value - acc.total_purchase_value
        gain_percent == IF acc.total_purchase_value # 0
                        THEN round_percent(gain, acc.total_purchase_value)
                        ELSE 0
    IN  [self |-> [self EXCEPT
             !.state = Num(round2(acc.total_value)),
             !.attrs = [total_purchase_value |-> round2(acc.total_purchase_value),
                        total_gain_loss      |-> round2(gain),
                        total_gain_percent   |-> gain_percent,
                        by_stock             |->
                            [k \in DOMAIN acc.per_stock |->
                                round2(acc.per_stock[k].current_value)]]],
         log     |-> acc.log,
         asked   |-> acc.asked,
         escaped |-> FALSE]

----------------------------------------------------------------------------
(* State machine *)

\* how often ticker t occurs in the list of tickers asked
RECURSIVE Occurrences(_, _)
Occurrences(asked, t) ==
    IF asked = <<>> THEN 0
    ELSE (IF Head(asked) = t THEN 1 ELSE 0) + Occurrences(Tail(asked), t)

Count(asked) == [t \in Tickers |-> fetchCount[t] + Occurrences(asked, t)]

Init ==
    /\ stocks \in ConfigLists
    /\ individual = <<>>
    /\ aggregate = <<>>
    /\ portfolio = <<>>
    /\ logged = <<>>
    /\ escaped = FALSE
    /\ fetchCount = [t \in Tickers |-> 0]
    /\ last = [kind |-> "none", index |-> 0]
    /\ fetched = <<>>
    /\ quotes = [t \in Tickers |-> Absent]
    /\ turn = 0

SetupPlatform ==
    /\ portfolio = <<>>
    /\ LET made == setup_platform(stocks)
       IN  /\ individual' = made.individual_sensors
           /\ aggregate' = made.aggregate_sensors
           /\ portfolio' = made.total_portfolio
    /\ turn' = 1
    /\ UNCHANGED <<stocks, logged, escaped, fetchCount, last, fetched, quotes>>

\* what every update does with the result r of its method
Record(kind, index, r, answers) ==
    /\ logged' = r.log
    /\ escaped' = (escaped \/ r.escaped)
    /\ last' = [kind |-> kind, index |-> index]
    /\ fetched' = [i \in 1..Len(r.asked) |->
                       [ticker |-> r.asked[i], answer |-> answers[i]]]

UpdateStock(i, fetch) ==
    /\ i \in 1..Len(individual)
    /\ LET r == StockSensor_update(individual[i], fetch)
       IN  /\ individual' = [individual EXCEPT ![i] = r.self]
           /\ Record("stock", i, r, <<fetch>>)
    /\ UNCHANGED <<stocks, aggregate, portfolio, quotes>>

UpdateAggregate(k, fetch) ==
    /\ k \in 1..Len(aggregate)
    /\ LET r == AggregateStockSensor_update(aggregate[k], fetch)
       IN  /\ aggregate' = [aggregate EXCEPT ![k] = r.self]
           /\ Record("aggregate", k, r, <<fetch>>)
    /\ UNCHANGED <<stocks, individual, portfolio, quotes>>

UpdatePortfolio(fetches) ==
    /\ portfolio # <<>>
    /\ LET r == TotalPortfolioSensor_update(portfolio[1], fetches)
       IN  /\ portfolio' = <<r.self>>
           /\ Record("portfolio", 1, r, fetches)
    /\ UNCHANGED <<stocks, individual, aggregate, quotes>>

\* The holding sensors, polled in any order with any answers
StockPoll ==
    \E i \in 1..Len(individual), fetch \in Outcome :
        UpdateStock(i, fetch) /\ UNCHANGED <<turn, fetchCount>>

\* The symbol sensors, polled in any order with any answers
AggregatePoll ==
    \E k \in 1..Len(aggregate), fetch \in Outcome :
        UpdateAggregate(k, fetch) /\ UNCHANGED <<turn, fetchCount>>

\* The portfolio sensor, polled with any answer to each of its fetches
PortfolioPoll ==
    \E fetches \in [1..Len(stocks) -> Outcome] :
        UpdatePortfolio(fetches) /\ UNCHANGED <<turn, fetchCount>>

NextHolding == SetupPlatform \/ StockPoll

NextSymbol == SetupPlatform \/ AggregatePoll

NextPortfolio == SetupPlatform \/ PortfolioPoll

SpecHolding == Init /\ [][NextHolding]_vars

SpecSymbol == Init /\ [][NextSymbol]_vars

SpecPortfolio == Init /\ [][NextPortfolio]_vars

----------------------------------------------------------------------------
(* The first round of updates: add_entities(.., True) updates every new     *)
(* entity once, the holding sensors first, then the symbol sensors, then   *)
(* the portfolio sensor.  The quote source answers every fetch of a ticker *)
(* in the round the same way.                                              *)

InitCycle ==
    /\ stocks \in ConfigLists
    /\ individual = <<>>
    /\ aggregate = <<>>
    /\ portfolio = <<>>
    /\ logged = <<>>
    /\ escaped = FALSE
    /\ fetchCount = [t \in Tickers |-> 0]
    /\ last = [kind |-> "none", index |-> 0]
    /\ fetched = <<>>
    /\ quotes \in [Tickers -> Outcome]
    /\ turn = 0

CycleStock ==
    /\ turn \in 1..Len(individual)
    /\ LET fetch == quotes[individual[turn].ticker]
       IN  /\ UpdateStock(turn, fetch)
           /\ fetchCount' = Count(StockSensor_update(individual[turn], fetch).asked)
    /\ turn' = turn + 1

CycleAggregate ==
    /\ turn - Len(individual) \in 1..Len(aggregate)
    /\ LET k     == turn - Len(individual)
           fetch == quotes[aggregate[k].ticker]
       IN  /\ UpdateAggregate(k, fetch)
           /\ fetchCount' = Count(AggregateStockSensor_update(aggregate[k], fetch).asked)
    /\ turn' = turn + 1

CyclePortfolio ==
    /\ portfolio # <<>>
    /\ turn = Len(individual) + Len(aggregate) + 1
    /\ LET fetches == [i \in 1..Len(stocks) |-> quotes[stocks[i].symbol]]
       IN  /\ UpdatePortfolio(fetches)
           /\ fetchCount' = Count(TotalPortfolioSensor_update(portfolio[1], fetches).asked)
    /\ turn' = turn + 1

NextCycle == SetupPlatform \/ CycleStock \/ CycleAggregate \/ CyclePortfolio

SpecCycle == InitCycle /\ [][NextCycle]_vars

CycleDone == portfolio # <<>> /\ turn = Len(individual) + Len(aggregate) + 2

----------------------------------------------------------------------------
(* Vocabulary of the properties *)

\* the sum of f[x] over the x in S
RECURSIVE Sum(_, _)
Sum(f, S) ==
    IF S = {} THEN 0
    ELSE LET x == CHOOSE y \in S : TRUE
         IN  f[x] + Sum(f, S \ {x})

Positions == 1..Len(stocks)

\* the holdings of ticker t, by position in the configured list
Of(t) == { i \in Positions : stocks[i].symbol = t }

PurchaseValue == [i \in Positions |-> stocks[i].purchase_price * stocks[i].shares]

PortfolioUpdated == last.kind = "portfolio" /\ Len(fetched) = Len(stocks)

\* after a portfolio update: the holdings whose own fetch returned a price
Priced == { i \in Positions : fetched[i].answer.kind = "price" }

\* after a portfolio update: price * shares with the price of the own fetch
CurrentValue == [i \in Positions |-> fetched[i].answer.price * stocks[i].shares]

DerivedFields ==
    {"current_price", "gain_loss", "gain_percent", "total_shares",
     "total_purchase_value", "account_breakdown"}

----------------------------------------------------------------------------
(* Portfolio sensor, polled freely: SpecPortfolio *)

\* C1: after TotalPortfolioSensor.update the total current value is the sum
\* of price * shares over exactly the holdings whose own fetch returned a
\* price, and the total purchase value is the sum of purchase_price * shares
\* over those same holdings; every holding was fetched on its own.
C1_TotalsOverPricedHoldings ==
    last.kind = "portfolio" =>
        /\ Len(fetched) = Len(stocks)
        /\ \A i \in Positions : fetched[i].ticker = stocks[i].symbol
        /\ portfolio[1].state = Num(round2(Sum(CurrentValue, Priced)))
        /\ portfolio[1].attrs.total_purchase_value
               = round2(Sum(PurchaseValue, Priced))

\* a failed and a priced holding of the same ticker, both with a cost basis
C1_Witness ==
    /\ PortfolioUpdated
    /\ \E i, j \in Positions :
          /\ stocks[i].symbol = stocks[j].symbol
          /\ i \notin Priced /\ j \in Priced
          /\ PurchaseValue[i] > 0 /\ PurchaseValue[j] > 0
    /\ portfolio[1].state # Num(0)

\* C2: after TotalPortfolioSensor.update, by_stock has a key for ticker t
\* exactly when some holding of t had a priced fetch in that update, and the
\* value is the sum of the current values of the priced holdings of t.
C2_BreakdownOverPricedHoldings ==
    last.kind = "portfolio" =>
        /\ Len(fetched) = Len(stocks)
        /\ DOMAIN portfolio[1].attrs.by_stock
               = { stocks[i].symbol : i \in Priced }
        /\ \A t \in DOMAIN portfolio[1].attrs.by_stock :
               portfolio[1].attrs.by_stock[t]
                   = round2(Sum(CurrentValue, Priced \cap Of(t)))

\* one ticker is listed, another has holdings but none priced
C2_Witness ==
    /\ PortfolioUpdated
    /\ \E t, u \in Tickers :
          /\ t \in DOMAIN portfolio[1].attrs.by_stock
          /\ portfolio[1].attrs.by_stock[t] > 0
          /\ Of(u) # {} /\ Of(u) \cap Priced = {}
          /\ u \notin DOMAIN portfolio[1].attrs.by_stock

\* C10: after every TotalPortfolioSensor.update the state is a number, state
\* and attributes are what a newly constructed sensor computes from this
\* update's answers alone, and with no priced holding the result is total
\* 0, purchase value 0, gain 0, gain percent 0 and an empty by_stock.
C10_PortfolioNeverUnavailableNorStale ==
    last.kind = "portfolio" =>
        /\ Len(fetched) = Len(stocks)
        /\ portfolio[1].state # None
        /\ portfolio[1] =
              TotalPortfolioSensor_update(
                  TotalPortfolioSensor(stocks),
                  [i \in Positions |-> fetched[i].answer]).self
        /\ Priced = {} =>
              /\ portfolio[1].state = Num(0)
              /\ portfolio[1].attrs =
                    [total_purchase_value |-> 0, total_gain_loss |-> 0,
                     total_gain_percent |-> 0, by_stock |-> NoAttrs]

\* every fetch of a portfolio that has value failed, in both ways
C10_Witness ==
    /\ PortfolioUpdated
    /\ Priced = {}
    /\ \E i, j \in Positions :
          /\ fetched[i].answer = Absent /\ fetched[j].answer = Raised
          /\ stocks[i].shares > 0 /\ stocks[j].shares > 0
    /\ portfolio[1].state = Num(0)

----------------------------------------------------------------------------
(* Symbol sensors, polled freely: SpecSymbol *)

Shares == [i \in Positions |-> stocks[i].shares]

\* C6: setup_platform creates one symbol sensor per distinct ticker, holding
\* the configured holdings of that ticker; after a priced update of it,
\* total_shares is the sum of their shares, account_breakdown maps each of
\* their accounts to the sum of its shares, and the breakdown adds up to
\* total_shares.
C6_SymbolAggregateSums ==
    portfolio # <<>> =>
        /\ { aggregate[k].ticker : k \in 1..Len(aggregate) }
               = { stocks[i].symbol : i \in Positions }
        /\ \A k, l \in 1..Len(aggregate) :
               aggregate[k].ticker = aggregate[l].ticker => k = l
        /\ \A k \in 1..Len(aggregate) :
               LET t == aggregate[k].ticker
                   a == aggregate[k].attrs
               IN  /\ aggregate[k].configs
                          = SelectSeq(stocks, LAMBDA c : c.symbol = t)
                   /\ aggregate[k].state # None =>
                          /\ a.total_shares = Sum(Shares, Of(t))
                          /\ DOMAIN a.account_breakdown
                                 = { stocks[i].account : i \in Of(t) }
                          /\ \A acct \in DOMAIN a.account_breakdown :
                                 a.account_breakdown[acct]
                                     = Sum(Shares, { i \in Of(t) :
                                                       stocks[i].account = acct })
                          /\ Sum(a.account_breakdown, DOMAIN a.account_breakdown)
                                 = a.total_shares

\* a priced symbol sensor over two holdings of one account and ticker
C6_Witness ==
    \E k \in 1..Len(aggregate) :
        /\ aggregate[k].state # None
        /\ \E i, j \in Of(aggregate[k].ticker) :
              /\ i # j
              /\ stocks[i].account = stocks[j].account
              /\ stocks[i].shares > 0 /\ stocks[j].shares > 0

\* the other failure kind
Swap(fetch) ==
    IF fetch = Absent THEN Raised ELSE IF fetch = Raised THEN Absent ELSE fetch

FailedFetches == { i \in 1..Len(fetched) : fetched[i].answer.kind # "price" }

\* C7: an update whose fetch returns no price and one whose fetch raises end
\* in the same sensor state and attributes, and each failed fetch leaves one
\* log entry naming its ticker.
C7_BothFailureKindsAlikeAndLogged ==
    /\ \A i \in 1..Len(individual) :
          StockSensor_update(individual[i], Absent).self
              = StockSensor_update(individual[i], Raised).self
    /\ \A k \in 1..Len(aggregate) :
          AggregateStockSensor_update(aggregate[k], Absent).self
              = AggregateStockSensor_update(aggregate[k], Raised).self
    /\ portfolio # <<>> =>
          \A fetches \in [Positions -> Outcome] :
              TotalPortfolioSensor_update(portfolio[1], fetches).self
                  = TotalPortfolioSensor_update(portfolio[1],
                        [i \in Positions |-> Swap(fetches[i])]).self
    /\ last.kind # "none" =>
          /\ Len(logged) = Cardinality(FailedFetches)
          /\ \A i \in FailedFetches :
                \E n \in 1..Len(logged) : logged[n].ticker = fetched[i].ticker

----------------------------------------------------------------------------
(* Holding sensors, polled freely: SpecHolding *)

\* C4: when the most recent update of a holding sensor or a symbol sensor
\* got no price (absent or raised), the sensor's state is None and its
\* attributes hold no derived field.
C4_FailedUpdateCarriesNoDerivedFields ==
    /\ (last.kind = "stock" /\ fetched[1].answer.kind # "price") =>
          /\ individual[last.index].state = None
          /\ DOMAIN individual[last.index].attrs \cap DerivedFields = {}
    /\ (last.kind = "aggregate" /\ fetched[1].answer.kind # "price") =>
          /\ aggregate[last.index].state = None
          /\ DOMAIN aggregate[last.index].attrs \cap DerivedFields = {}

----------------------------------------------------------------------------
(* The first round of updates under steady quotes: SpecCycle *)

\* the holdings whose ticker the quote source prices in this round
Quoted == { i \in Positions : quotes[stocks[i].symbol].kind = "price" }

QuotedValue == [i \in Positions |-> quotes[stocks[i].symbol].price * stocks[i].shares]

StockDone(i) == portfolio # <<>> /\ turn > i

AggregateDone(k) == portfolio # <<>> /\ turn > Len(individual) + k

\* C3: no update lets an error out, a sensor is unavailable exactly when
\* its fetch failed, and in the portfolio loop every holding is fetched and
\* a priced holding that follows a failed one is still counted.
C3_NoFailureIsFatal ==
    /\ escaped = FALSE
    /\ last.kind = "stock" =>
          (individual[last.index].state = None
              <=> fetched[1].answer.kind # "price")
    /\ last.kind = "aggregate" =>
          (aggregate[last.index].state = None
              <=> fetched[1].answer.kind # "price")
    /\ last.kind = "portfolio" =>
          /\ Len(fetched) = Len(stocks)
          /\ portfolio[1].state # None
          /\ \A i, j \in Positions :
                (i < j /\ i \notin Priced /\ j \in Priced) =>
                    /\ stocks[j].symbol \in DOMAIN portfolio[1].attrs.by_stock
                    /\ portfolio[1].attrs.by_stock[stocks[j].symbol]
                           >= round2(CurrentValue[j])

\* the first holding's fetch raised, the second holding is priced and counted
C3_Witness ==
    /\ CycleDone
    /\ Len(stocks) >= 2
    /\ fetched[1].answer = Raised /\ fetched[2].answer.kind = "price"
    /\ stocks[2].shares > 0
    /\ individual[1].state = None /\ individual[2].state # None
    /\ portfolio[1].state # Num(0)

\* C5: a zero purchase value never faults: a priced holding with shares = 0
\* or purchase_price = 0, a priced ticker whose total purchase value is 0
\* and a portfolio whose priced holdings cost 0 (none priced included) each
\* report gain_percent 0 and the computed current value as state.
C5_ZeroCostBasisGuard ==
    /\ \A i \in 1..Len(individual) :
          (StockDone(i) /\ i \in Quoted /\ PurchaseValue[i] = 0) =>
              /\ individual[i].state = Num(round2(QuotedValue[i]))
              /\ individual[i].attrs.gain_percent = 0
    /\ \A k \in 1..Len(aggregate) :
          LET t == aggregate[k].ticker
          IN  (/\ AggregateDone(k)
               /\ quotes[t].kind = "price"
               /\ Sum(PurchaseValue, Of(t)) = 0) =>
                  /\ aggregate[k].state = Num(round2(Sum(QuotedValue, Of(t))))
                  /\ aggregate[k].attrs.gain_percent = 0
    /\ (CycleDone /\ Sum(PurchaseValue, Quoted) = 0) =>
          /\ portfolio[1].state = Num(round2(Sum(QuotedValue, Quoted)))
          /\ portfolio[1].attrs.total_gain_percent = 0

\* shares that cost nothing and are worth something, at all three levels
C5_Witness ==
    /\ CycleDone
    /\ Quoted # {}
    /\ Sum(PurchaseValue, Quoted) = 0
    /\ \E i \in Quoted : stocks[i].shares > 0 /\ individual[i].state # Num(0)
    /\ \E k \in 1..Len(aggregate) :
          /\ aggregate[k].state # None /\ aggregate[k].state # Num(0)
          /\ aggregate[k].attrs.total_purchase_value = 0
    /\ portfolio[1].state # Num(0)

HoldingsOf == [t \in Tickers |-> Cardinality(Of(t))]

\* C8 as stated: in a round in which every sensor is updated once, no
\* ticker is asked for more than three times.
C8_AtMostThreeFetches ==
    CycleDone => \A t \in Tickers : fetchCount[t] <= 3

\* C8 amended: in such a round a ticker with n >= 1 holdings is asked for
\* exactly 2n + 1 times (n holding sensors, one symbol sensor, n fetches of
\* the portfolio sensor), a ticker without holdings never.
C8_FetchesPerTicker ==
    CycleDone =>
        \A t \in Tickers :
            fetchCount[t] = IF HoldingsOf[t] = 0 THEN 0 ELSE 2 * HoldingsOf[t] + 1

\* two holdings share a ticker, which is asked for five times
C8_Witness ==
    /\ CycleDone
    /\ \E t \in Tickers : HoldingsOf[t] = 2 /\ fetchCount[t] = 5

\* what a sensor's attributes say its unrounded current value is
StockValue == [i \in 1..Len(individual) |->
                  individual[i].attrs.current_price * individual[i].attrs.shares]

AggregateValue == [k \in 1..Len(aggregate) |->
                      aggregate[k].attrs.current_price * aggregate[k].attrs.total_shares]

AggregatePurchase == [k \in 1..Len(aggregate) |->
                         aggregate[k].attrs.total_purchase_value]

\* C9: in a round where every fetch is priced, the three views agree before
\* rounding: a symbol sensor's value and the portfolio's by_stock entry are
\* both the rounded sum of the unrounded values of the ticker's holding
\* sensors, and the portfolio's total and purchase value are the rounded
\* sums over the symbol sensors.
C9_ViewsAgree ==
    (CycleDone /\ Quoted = Positions) =>
        /\ \A k \in 1..Len(aggregate) :
              LET t == aggregate[k].ticker
              IN  /\ aggregate[k].state = Num(round2(Sum(StockValue, Of(t))))
                  /\ AggregateValue[k] = Sum(StockValue, Of(t))
                  /\ t \in DOMAIN portfolio[1].attrs.by_stock
                  /\ portfolio[1].attrs.by_stock[t] = round2(Sum(StockValue, Of(t)))
        /\ portfolio[1].state
               = Num(round2(Sum(AggregateValue, 1..Len(aggregate))))
        /\ portfolio[1].attrs.total_purchase_value
               = round2(Sum(AggregatePurchase, 1..Len(aggregate)))

\* two priced holdings of one ticker whose rounded values do not add up to
\* the symbol sensor's value
C9_Witness ==
    /\ CycleDone
    /\ Quoted = Positions
    /\ \E k \in 1..Len(aggregate) :
          /\ Cardinality(Of(aggregate[k].ticker)) = 2
          /\ aggregate[k].state
                 # Num(Sum([i \in 1..Len(individual) |-> individual[i].state[1]],
                          Of(aggregate[k].ticker)))

====
